---- MODULE Spec2Model ----
(***************************************************************************)
(* Resilient-execution utilities of effectkit (src/lib/effects):           *)
(*   fetchPostsWithRetry, fetchPostWithFallback, fetchUserDataWithTimeout, *)
(*   processPostsWithResourceManagement   (simple API, mock data)          *)
(*   makeRequest via fetchPostsWithErrorHandling, fetchUserDataParallel    *)
(*                                         (HTTP API)                      *)
(* One run of one utility is one behaviour: Init chooses the utility       *)
(* (call) and its argument (arg); the actions are the steps of the fiber   *)
(* that runs it, of the deadline timer and of the parallel tasks.          *)
(* Durations are not modelled: which of two pending timers fires first is  *)
(* left to the scheduler, so every interleaving of a deadline and a        *)
(* completion is explored.                                                 *)
(***************************************************************************)
EXTENDS Integers, Sequences, FiniteSets, TLC

\* ------------------------------------------------------------------ bounds
\* Number of equidistant samples of Random.next in [0, 1) used for jitter.
JitterSteps == 4

\* User-service operations in one run of the store.
MaxOps == 4

\* Button clicks on the main page after it has mounted.
MaxClicks == 1

\* ------------------------------------------------------- program constants
BaseDelayMs == 100
Recurs == 3
Concurrency == 2
NumTasks == 2
MissingId == 999
RequestTimeoutMs == 10000
AllTimeoutMs == 5000

\* --------------------------------------------------------------- mock data
mockPosts ==
  << [id |-> 1, title |-> "Effect-TS: Functional Programming Made Easy",
      body |-> "Effect-TS provides a powerful toolkit for building robust, type-safe applications with composable effects.",
      userId |-> 1],
     [id |-> 2, title |-> "SvelteKit: The Modern Web Framework",
      body |-> "SvelteKit offers the best developer experience with its component-based architecture and server-side rendering.",
      userId |-> 1],
     [id |-> 3, title |-> "Combining Effect and SvelteKit",
      body |-> "Learn how to integrate Effect-TS with SvelteKit for building scalable web applications.",
      userId |-> 2] >>

mockTodos ==
  << [id |-> 1, title |-> "Learn Effect-TS basics", completed |-> TRUE, userId |-> 1],
     [id |-> 2, title |-> "Build a SvelteKit app", completed |-> TRUE, userId |-> 1],
     [id |-> 3, title |-> "Integrate Effect with SvelteKit", completed |-> FALSE, userId |-> 1],
     [id |-> 4, title |-> "Write comprehensive documentation", completed |-> FALSE, userId |-> 2],
     [id |-> 5, title |-> "Create example applications", completed |-> TRUE, userId |-> 2] >>

\* Ids a caller passes: the stored ids, 0 (falsy) and an absent id.
Ids == {0, 1, 2, 3, MissingId}

\* A JavaScript array: an object with a length and its items.
JsArray(s) == [length |-> Len(s), items |-> s]

\* --------------------------------------------------------- errors, exits
ApiError(msg) == [_tag |-> "ApiError", message |-> msg]

NetworkError(msg) == [_tag |-> "NetworkError", message |-> msg]

TimeoutException == [_tag |-> "TimeoutException", message |-> "Operation timed out"]

\* Failures of client.execute / response handling, named as catchTags names them.
RequestError == [_tag |-> "RequestError", message |-> "transport"]

HttpClientError == [_tag |-> "HttpClientError", message |-> "status"]

ParseError == [_tag |-> "ParseError", message |-> "shape"]

Ok(v) == [ok |-> TRUE, value |-> v]

Err(e) == [ok |-> FALSE, error |-> e]

NoExit == [ok |-> FALSE, error |-> [_tag |-> "none", message |-> ""]]

\* `Post with ID ${id} not found`
NotFoundMessage(id) ==
  CASE id = 0 -> "Post with ID 0 not found"
    [] id = 1 -> "Post with ID 1 not found"
    [] id = 2 -> "Post with ID 2 not found"
    [] id = 3 -> "Post with ID 3 not found"
    [] OTHER  -> "Post with ID 999 not found"

\* ------------------------------------------------------------ simple API
\* mockPosts.find(post => post.id === id)
FindPost(id) == SelectSeq(mockPosts, LAMBDA p : p.id = id)

\* simulateNetworkCall(data): after the sleep, fails with NetworkError at
\* random (net = "fail") and succeeds with data otherwise.
NetworkFailure == NetworkError("Network request failed")

SimulateNetworkCall(data, net) == IF net = "fail" THEN Err(NetworkFailure) ELSE Ok(data)

\* Effect.mapError(() => e): the original failure is not an argument of e.
MapError(x, e) == IF x.ok THEN x ELSE Err(e)

\* getPosts: simulateNetworkCall(mockPosts), every failure mapped to ApiError.
SimpleGetPosts(net) ==
  MapError(SimulateNetworkCall(JsArray(mockPosts), net),
           ApiError("Failed to fetch posts"))

\* getPost: the network failure passes through; an absent post is a 404 ApiError.
SimpleGetPost(id, net) ==
  LET x == SimulateNetworkCall(FindPost(id), net) IN
    IF ~x.ok THEN x
    ELSE IF Len(x.value) > 0 THEN Ok(x.value[1])
    ELSE Err(ApiError(NotFoundMessage(id)))

\* getTodos: a truthy userId filters, a falsy one returns every todo.
SimpleGetTodos(userId, net) ==
  MapError(SimulateNetworkCall(
             IF userId # 0
             THEN JsArray(SelectSeq(mockTodos, LAMBDA t : t.userId = userId))
             ELSE JsArray(mockTodos), net),
           ApiError("Failed to fetch todos"))

\* ---------------------------------------------------------- retry policy
RECURSIVE Pow2(_)
Pow2(n) == IF n = 0 THEN 1 ELSE 2 * Pow2(n - 1)

\* Schedule.exponential(100 ms): the k-th recurrence (k = 0, 1, ..) waits 100 * 2^k.
Exponential_Const(k) == BaseDelayMs

Exponential(k) == BaseDelayMs * Pow2(k)

\* Schedule.recurs(3): the k-th recurrence is granted while k < 3.
RecursContinue_Off(k) == k < Recurs - 1

RecursContinue_Always(k) == TRUE

RecursContinue(k) == k < Recurs

\* Schedule.jittered: the delay d becomes d * (0.8 * (1 - r) + 1.2 * r) for a
\* random r in [0, 1); r = j / JitterSteps here.
Jittered_Full(d, j) == (d * j) \div JitterSteps

Jittered(d, j) == (d * (8 * JitterSteps + 4 * j)) \div (10 * JitterSteps)

\* -------------------------------------------------- makeRequest.catchTags
CatchTags(e) ==
  CASE e._tag = "TimeoutException" -> NetworkError("Request timed out")
    [] e._tag = "HttpClientError"  -> ApiError("HTTP error: " \o e.message)
    [] e._tag = "RequestError"     -> NetworkError("Network error: " \o e.message)
    [] e._tag = "ParseError"       -> ApiError("Failed to decode response: " \o e.message)
    [] OTHER                       -> e

\* ------------------------------------------------------------ Effect.match
\* onFailure / onSuccess of every utility but fetchUserDataWithTimeout.
Match_Swallow(x) ==
  [success |-> TRUE, data |-> IF x.ok THEN x.value ELSE x.error]

Match(x) ==
  IF x.ok THEN [success |-> TRUE, data |-> x.value]
  ELSE [success |-> FALSE,
        error |-> [type |-> x.error._tag, message |-> x.error.message]]

\* onFailure / onSuccess of fetchUserDataWithTimeout.
MatchTimeout_TagOnly(x) == Match(x)

MatchTimeout(x) ==
  IF x.ok THEN [success |-> TRUE, data |-> x.value]
  ELSE [success |-> FALSE,
        error |-> [type |-> IF x.error._tag = "TimeoutException"
                            THEN "Timeout" ELSE x.error._tag,
                   message |-> IF x.error._tag = "TimeoutException"
                               THEN "Request timed out" ELSE x.error.message]]

\* --------------------------------------------------------- Effect.orElse
FallbackPost(id) ==
  [id |-> id, title |-> "Fallback Post",
   body |-> "This is a fallback post when the original could not be loaded.",
   userId |-> 0]

OrElse_Rethrow(x, id) == x

OrElse_Always(x, id) == Ok(FallbackPost(id))

OrElse(x, id) == IF x.ok THEN x ELSE Ok(FallbackPost(id))

\* ------------------------------------------------------------ user service
\* Names and emails, the strings forms trim, lower-case and match against the
\* email pattern, are sequences of characters.
\* avatar and createdAt (the wall-clock time of creation) are left out.
mockUsers ==
  << [id |-> 1, name |-> << "A", "l", "i", "c", "e", " ", "J", "o", "h", "n", "s", "o", "n" >>, email |-> << "a", "l", "i", "c", "e", "@", "e", "x", "a", "m", "p", "l", "e", ".", "c", "o", "m" >>, isActive |-> TRUE],
     [id |-> 2, name |-> << "B", "o", "b", " ", "S", "m", "i", "t", "h" >>, email |-> << "b", "o", "b", "@", "e", "x", "a", "m", "p", "l", "e", ".", "c", "o", "m" >>, isActive |-> TRUE],
     [id |-> 3, name |-> << "C", "h", "a", "r", "l", "i", "e", " ", "D", "a", "v", "i", "s" >>, email |-> << "c", "h", "a", "r", "l", "i", "e", "@", "e", "x", "a", "m", "p", "l", "e", ".", "c", "o", "m" >>, isActive |-> FALSE] >>

\* Schema.pattern(/^[^\s@]+@[^\s@]+\.[^\s@]+$/)
EmailPattern(e) ==
  /\ \A k \in DOMAIN e : e[k] # " "
  /\ \E a \in DOMAIN e :
       /\ e[a] = "@"
       /\ \A k \in DOMAIN e : e[k] = "@" => k = a
       /\ a > 1
       /\ \E d \in DOMAIN e : e[d] = "." /\ d > a + 1 /\ d < Len(e)

\* UserSchema, on the fields createUser is given.
SatisfiesUserSchema(u) == EmailPattern(u.email)

\* Bodies a client posts to /api/users: one that satisfies the schema, three
\* whose email does not, and one that is not JSON.
UserInputs ==
  { [parses |-> TRUE, name |-> << "D", "a", "n", "a" >>, email |-> << "d", "a", "n", "a", "@", "x", ".", "i", "o" >>, isActive |-> TRUE],
    [parses |-> TRUE, name |-> << "D", "a", "n", "a" >>, email |-> << "d", "a", "n", "a", ".", "x", ".", "i", "o" >>, isActive |-> TRUE],
    [parses |-> TRUE, name |-> << "D", "a", "n", "a" >>, email |-> << "d", "a", "n", "a", "@", "x", "i", "o" >>, isActive |-> TRUE],
    [parses |-> TRUE, name |-> << "D", "a", "n", "a" >>, email |-> << "d", "a", " ", "n", "a", "@", "x", ".", "i", "o" >>, isActive |-> TRUE],
    [parses |-> FALSE, name |-> << >>, email |-> << >>, isActive |-> FALSE] }

NoInput == [parses |-> FALSE, name |-> << >>, email |-> << >>, isActive |-> FALSE]

NoResponse == [status |-> 0]

NoOp == [name |-> "none", id |-> 0, data |-> << >>]

NoResult == [success |-> FALSE, error |-> [type |-> "none", message |-> ""]]

\* ---------------------------------------------------------------- main page
\* loadPosts, loadPost, loadUserData, processStats.
Loads == {"posts", "post", "userData", "stats"}

\* `let postsResult: any = null` and its three siblings.
Null == [null |-> TRUE]

\* --------------------------------------------------------------- forms page
\* { name: "", email: "", isActive: true }
EmptyForm == [name |-> << >>, email |-> << >>, isActive |-> TRUE]

\* What a user types into a form: one input that is valid once normalised,
\* one with a 1-character name and a malformed email, one that is blank.
FormInputs ==
  { [name |-> << " ", "D", "a", "n", " " >>, email |-> << " ", "D", "a", "n", "@", "X", ".", "i", "o", " " >>, isActive |-> TRUE],
    [name |-> << "D" >>, email |-> << "d", "a", "n", ".", "x" >>, isActive |-> TRUE],
    [name |-> << " ", " " >>, email |-> << >>, isActive |-> FALSE] }

\* ------------------------------------------------------------------ state
VARIABLES
  call,       \* the utility this run executes
  arg,        \* its id / userId argument
  pc,         \* position of the main fiber
  attempts,   \* invocations of the retried / wrapped operation so far
  failures,   \* attempts of the retry loop that ended in a failure
  sched,      \* recurrences the retry schedule has granted so far
  waits,      \* backoff delays waited so far, in ms
  exit,       \* exit of the wrapped operation (last attempt, body, Effect.all)
  op,         \* client.execute of the current attempt
  timer,      \* the deadline sleep of Effect.timeout
  guardLog,   \* outcomes the timeout guard has produced, per invocation
  window,     \* ms the deadline of the current invocation was armed with
  tasks,      \* state of each operation handed to Effect.all
  results,    \* exit of each completed task, by input index
  order,      \* task indices in completion order
  inUse,      \* concurrency tickets in use
  collected,  \* the tuple Effect.all succeeded with
  delivered,  \* results handed to the caller of the utility
  acquired,   \* times acquire has run
  released,   \* times release has run
  bodyStarted,       \* the use phase has begun
  processed,         \* context.processed
  fallbackEvaluated, \* the orElse alternative has been evaluated
  cache,      \* the Map<number, Post> of the current fetchPostWithCaching call
  previous,   \* what an earlier fetchPostWithCaching call handed to its caller
  users,      \* mockUsers, the module-level user store
  input,      \* body of the POST /api/users request
  response,   \* the HTTP response of the POST handler
  opCount,    \* user-service operations run so far
  lastOp,     \* the latest user-service operation and its arguments
  last,       \* what runUserOperation resolved to for it
  before,     \* the user store as that operation found it
  loading,    \* main page: the four loading flags
  pageResult, \* main page: postsResult, postResult, userDataResult, statsResult
  inflight,   \* main page: load calls awaiting Effect.runPromise
  started,    \* main page: load calls started so far
  clicks,     \* main page: button clicks so far
  newest,     \* per load function, the most recently started call
  shown,      \* per load function, the call whose result the page holds
  formData,   \* forms page: the create form
  updateFormData, \* forms page: the edit form
  formErrors, \* forms page: what the forms show as validation errors
  isSubmitting, \* forms page
  submitResult, \* forms page
  pageUsers,  \* forms page: `users`, the list the page renders
  selectedUserId, \* forms page: 0 stands for null (`!selectedUserId` holds for both)
  pending     \* forms page: the handler that is between its awaits

vars == << call, arg, pc, attempts, failures, sched, waits, exit, op, timer, guardLog, window,
           tasks, results, order, inUse, collected, delivered, acquired,
           released, bodyStarted, processed, fallbackEvaluated, cache, previous,
           users, input, response, opCount, lastOp, last, before,
           loading, pageResult, inflight, started, clicks, newest, shown,
           formData, updateFormData, formErrors, isSubmitting, submitResult, pageUsers,
           selectedUserId, pending >>

retryVars == << attempts, failures, sched, waits >>

guardVars == << op, timer, guardLog, window >>

allVars == << tasks, results, order, inUse, collected >>

scopeVars == << acquired, released, bodyStarted, processed >>

storeVars == << opCount, lastOp, last, before >>

pageVars == << loading, pageResult, inflight, started, clicks, newest, shown >>

formVars ==
  << formData, updateFormData, formErrors, isSubmitting, submitResult, pageUsers,
     selectedUserId, pending >>

moreVars == << storeVars, pageVars, formVars >>

extVars == << cache, previous, users, input, response, moreVars >>

Calls == {"retry", "request", "fallback", "timeout", "parallel", "resource",
          "reliable", "caching", "createUser", "store", "page", "forms"}

TaskIds == 1 .. NumTasks

Init ==
  /\ call \in Calls
  /\ arg \in (IF call \in {"fallback", "timeout", "parallel", "caching"} THEN Ids ELSE {0})
  /\ pc = "idle"
  /\ attempts = 0
  /\ failures = 0
  /\ sched = 0
  /\ waits = << >>
  /\ exit = NoExit
  /\ op = "idle"
  /\ timer = "off"
  /\ guardLog = << >>
  /\ window = 0
  /\ tasks = [i \in TaskIds |-> "pending"]
  /\ results = [i \in TaskIds |-> NoExit]
  /\ order = << >>
  /\ inUse = 0
  /\ collected = << >>
  /\ delivered = << >>
  /\ acquired = 0
  /\ released = 0
  /\ bodyStarted = FALSE
  /\ processed = 0
  /\ fallbackEvaluated = FALSE
  /\ cache = {}
  /\ previous = << >>
  /\ users = mockUsers
  /\ input \in (IF call = "createUser" THEN UserInputs ELSE {NoInput})
  /\ response = NoResponse
  /\ opCount = 0
  /\ lastOp = NoOp
  /\ last = NoResult
  /\ before = mockUsers
  /\ loading = [fn \in Loads |-> FALSE]
  /\ pageResult = [fn \in Loads |-> Null]
  /\ inflight = {}
  /\ started = 0
  /\ clicks = 0
  /\ newest = [fn \in Loads |-> 0]
  /\ shown = [fn \in Loads |-> 0]
  /\ formData = EmptyForm
  /\ updateFormData = EmptyForm
  /\ formErrors = << >>
  /\ isSubmitting = FALSE
  /\ submitResult = Null
  /\ pageUsers = << >>
  /\ selectedUserId = 0
  /\ pending = "none"

\* ------------------------------------------------------------ Effect.retry
\* The next attempt starts when the backoff sleep of the retry has ended.
BackoffOver_Early == pc \in {"waiting", "running", "executing"}

BackoffOver == pc = "waiting"

\* One step of Effect.retry after a failed attempt: the schedule either grants
\* a recurrence (wait `delay`, then run again) or ends, and the last failure
\* is handed to `finish`.
RetryOrFail(e, delay, finish) ==
  /\ exit' = Err(e)
  /\ failures' = failures + 1
  /\ IF RecursContinue(sched)
     THEN /\ pc' = "waiting"
          /\ sched' = sched + 1
          /\ waits' = Append(waits, delay)
          /\ UNCHANGED delivered
     ELSE /\ pc' = "done"
          /\ delivered' = Append(delivered, finish)
          /\ UNCHANGED << sched, waits >>

\* ----------------------------------------------------- fetchPostsWithRetry
RetryStart ==
  /\ call = "retry" /\ pc = "idle"
  /\ pc' = "running"
  /\ attempts' = attempts + 1
  /\ UNCHANGED << extVars, call, arg, failures, sched, waits, exit, guardVars, allVars, delivered,
                  scopeVars, fallbackEvaluated >>

GetPostsCompletes(net) ==
  /\ call = "retry" /\ pc = "running"
  /\ LET x == SimpleGetPosts(net) IN
       IF x.ok
       THEN /\ exit' = x
            /\ pc' = "done"
            /\ delivered' = Append(delivered, Match(x))
            /\ UNCHANGED << failures, sched, waits >>
       ELSE RetryOrFail(x.error, Exponential(sched), Match(x))
  /\ UNCHANGED << extVars, call, arg, attempts, guardVars, allVars, scopeVars,
                  fallbackEvaluated >>

RetryBackoffElapsed ==
  /\ call = "retry" /\ BackoffOver
  /\ pc' = "running"
  /\ attempts' = attempts + 1
  /\ UNCHANGED << extVars, call, arg, failures, sched, waits, exit, guardVars, allVars, delivered,
                  scopeVars, fallbackEvaluated >>

\* ------------------------------------------------------------ remote data
\* What the JSONPlaceholder server answers is outside the repository; these
\* stand for a payload that decodes against PostSchema / TodoSchema.
RemotePost(id) ==
  [id |-> id, title |-> "remote post", body |-> "remote body", userId |-> 1]

RemotePosts == JsArray(<< RemotePost(1), RemotePost(2) >>)

BASE_URL == "https://jsonplaceholder.typicode.com"

\* The URL getTodos of the HTTP service requests: a truthy userId adds the query.
TodosUrl(userId) ==
  IF userId # 0 THEN BASE_URL \o "/todos?userId=" \o ToString(userId)
  ELSE BASE_URL \o "/todos"

RemoteTodos(userId) ==
  JsArray(<< [id |-> 1, title |-> "remote todo", completed |-> TRUE, userId |-> userId],
             [id |-> 2, title |-> "remote todo", completed |-> FALSE, userId |-> userId] >>)

\* --------------------------------------------------------- Effect.timeout
\* Effect.timeout races the operation against a sleep; the loser is interrupted.
TimerAfterOp_KeepsRunning == "armed"

TimerAfterOp == "cancelled"

OpAfterTimeout == "interrupted"

GuardEvent(kind) == [inv |-> attempts, out |-> kind]

RECURSIVE Sum(_)
Sum(s) == IF s = << >> THEN 0 ELSE s[1] + Sum(Tail(s))

\* Effect.timeout(REQUEST_TIMEOUT) sits inside Effect.retry: each attempt arms
\* a deadline of the full duration, whatever the earlier attempts and
\* backoffs have consumed.
DeadlineWindow_Shared(spent) == RequestTimeoutMs - spent

DeadlineWindow(spent) == RequestTimeoutMs

\* ------------------------- makeRequest (through fetchPostsWithErrorHandling)
ExecuteFailures_WithDecode == {RequestError, HttpClientError, ParseError}

ExecuteFailures == {RequestError, HttpClientError}

RequestStart ==
  /\ call = "request" /\ pc = "idle"
  /\ pc' = "executing"
  /\ attempts' = attempts + 1
  /\ op' = "inflight"
  /\ timer' = "armed"
  /\ window' = DeadlineWindow(Sum(waits))
  /\ UNCHANGED << extVars, call, arg, failures, sched, waits, exit, guardLog, allVars, delivered,
                  scopeVars, fallbackEvaluated >>

\* client.execute answers before the deadline.
ExecuteResponds ==
  /\ call = "request" /\ op = "inflight"
  /\ op' = "done"
  /\ timer' = TimerAfterOp
  /\ guardLog' = Append(guardLog, GuardEvent("result"))
  /\ pc' = "json"
  /\ exit' = Ok("response")
  /\ UNCHANGED << extVars, window, call, arg, retryVars, allVars, delivered, scopeVars,
                  fallbackEvaluated >>

\* client.execute fails before the deadline: the failure goes to the retry.
ExecuteFails(e, j) ==
  /\ call = "request" /\ op = "inflight"
  /\ op' = "done"
  /\ timer' = TimerAfterOp
  /\ guardLog' = Append(guardLog, GuardEvent("result"))
  /\ RetryOrFail(e, Jittered(Exponential(sched), j), Match(Err(CatchTags(e))))
  /\ UNCHANGED << extVars, window, call, arg, attempts, allVars, scopeVars, fallbackEvaluated >>

\* The 10 s deadline of the current attempt fires first: client.execute is
\* interrupted and the attempt fails with TimeoutException.
RequestDeadlineFires(j) ==
  /\ call = "request" /\ timer = "armed"
  /\ timer' = "fired"
  /\ op' = OpAfterTimeout
  /\ guardLog' = Append(guardLog, GuardEvent("timeout"))
  /\ RetryOrFail(TimeoutException, Jittered(Exponential(sched), j),
                 Match(Err(CatchTags(TimeoutException))))
  /\ UNCHANGED << extVars, window, call, arg, attempts, allVars, scopeVars, fallbackEvaluated >>

\* The backoff is over: the next attempt runs under a fresh deadline.
RequestBackoffElapsed ==
  /\ call = "request" /\ BackoffOver
  /\ pc' = "executing"
  /\ attempts' = attempts + 1
  /\ op' = "inflight"
  /\ timer' = "armed"
  /\ window' = DeadlineWindow(Sum(waits))
  /\ UNCHANGED << extVars, call, arg, failures, sched, waits, exit, guardLog, allVars, delivered,
                  scopeVars, fallbackEvaluated >>

\* HttpClientResponse.json(response)
JsonStep(good) ==
  /\ call = "request" /\ pc = "json"
  /\ IF good
     THEN /\ pc' = "decode"
          /\ UNCHANGED << exit, delivered >>
     ELSE /\ pc' = "done"
          /\ exit' = Err(HttpClientError)
          /\ delivered' = Append(delivered, Match(Err(CatchTags(HttpClientError))))
  /\ UNCHANGED << extVars, call, arg, retryVars, guardVars, allVars, scopeVars,
                  fallbackEvaluated >>

\* Schema.decodeUnknown(schema)(json), then Effect.map and Effect.match.
DecodeStep(good) ==
  /\ call = "request" /\ pc = "decode"
  /\ pc' = "done"
  /\ exit' = IF good THEN Ok(RemotePosts) ELSE Err(ParseError)
  /\ delivered' = Append(delivered,
                         IF good THEN Match(Ok(RemotePosts))
                         ELSE Match(Err(CatchTags(ParseError))))
  /\ UNCHANGED << extVars, call, arg, retryVars, guardVars, allVars, scopeVars,
                  fallbackEvaluated >>

\* --------------------------------------------------- fetchPostWithFallback
FallbackStart ==
  /\ call = "fallback" /\ pc = "idle"
  /\ pc' = "running"
  /\ attempts' = attempts + 1
  /\ UNCHANGED << extVars, call, arg, failures, sched, waits, exit, guardVars, allVars, delivered,
                  scopeVars, fallbackEvaluated >>

\* api.getPost(id) ends.
GetPostCompletes(net) ==
  /\ call = "fallback" /\ pc = "running"
  /\ exit' = SimpleGetPost(arg, net)
  /\ pc' = "orElse"
  /\ UNCHANGED << extVars, call, arg, retryVars, guardVars, allVars, delivered,
                  scopeVars, fallbackEvaluated >>

\* Effect.orElse, then Effect.match.
OrElseStep ==
  /\ call = "fallback" /\ pc = "orElse"
  /\ fallbackEvaluated' = ~exit.ok
  /\ delivered' = Append(delivered, Match(OrElse(exit, arg)))
  /\ pc' = "done"
  /\ UNCHANGED << extVars, call, arg, retryVars, exit, guardVars, allVars, scopeVars >>

\* ------------------------------ Effect.all([getPost, getTodos], concurrency 2)
\* fetchUserDataWithTimeout ("timeout", simple API, 5 s deadline) and
\* fetchUserDataParallel ("parallel", HTTP API, no deadline).
Outcomes ==
  IF call = "timeout" THEN {"ok", "fail"}
  ELSE {"ok", "TimeoutException", "HttpClientError", "RequestError", "ParseError"}

FailureOf(out) ==
  CASE out = "TimeoutException" -> TimeoutException
    [] out = "HttpClientError"  -> HttpClientError
    [] out = "RequestError"     -> RequestError
    [] OTHER                    -> ParseError

\* Exit of the i-th operation of the array: [getPost(userId), getTodos(userId)].
TaskResult(i, out) ==
  IF call = "timeout"
  THEN IF i = 1 THEN SimpleGetPost(arg, out) ELSE SimpleGetTodos(arg, out)
  ELSE IF out = "ok"
       THEN Ok(IF i = 1 THEN RemotePost(arg) ELSE RemoteTodos(arg))
       ELSE Err(CatchTags(FailureOf(out)))

Running == {i \in TaskIds : tasks[i] = "running"}

\* A ticket is taken when a task starts and given back when it ends.
TicketsAfterAcquire_Double(n) == n + 2

TicketsAfterAcquire(n) == n + 1

TicketsAfterRelease_Leak(n) == n

TicketsAfterRelease(n) == n - 1

\* Operations are dispatched in input order, while a ticket is free and no
\* task has failed.
MayDispatch_AfterFailure(i) ==
  /\ pc = "all"
  /\ tasks[i] = "pending"
  /\ \A k \in TaskIds : k < i => tasks[k] # "pending"
  /\ inUse < Concurrency

MayDispatch(i) ==
  /\ pc = "all"
  /\ tasks[i] = "pending"
  /\ \A k \in TaskIds : k < i => tasks[k] # "pending"
  /\ inUse < Concurrency
  /\ exit = NoExit

\* The tuple Effect.all succeeds with: the values by input index.
Collected_ByCompletion == [k \in TaskIds |-> results[order[k]].value]

Collected == [k \in TaskIds |-> results[k].value]

\* Effect.map(([post, todos]) => ...)
UserData(post, todos) ==
  [post |-> post,
   todos |-> todos,
   summary |-> [totalTodos |-> todos.length,
                completedTodos |-> Len(SelectSeq(todos.items, LAMBDA t : t.completed)),
                postTitle |-> post.title]]

AllStart ==
  /\ call \in {"timeout", "parallel"} /\ pc = "idle"
  /\ pc' = "all"
  /\ timer' = IF call = "timeout" THEN "armed" ELSE "off"
  /\ window' = IF call = "timeout" THEN AllTimeoutMs ELSE window
  /\ attempts' = attempts + 1
  /\ UNCHANGED << extVars, call, arg, failures, sched, waits, exit, op, guardLog, allVars,
                  delivered, scopeVars, fallbackEvaluated >>

TaskStart(i) ==
  /\ call \in {"timeout", "parallel"}
  /\ MayDispatch(i)
  /\ tasks' = [tasks EXCEPT ![i] = "running"]
  /\ inUse' = TicketsAfterAcquire(inUse)
  /\ UNCHANGED << extVars, call, arg, pc, retryVars, exit, guardVars, results, order,
                  collected, delivered, scopeVars, fallbackEvaluated >>

\* A running task ends by itself; the first failure becomes the exit of
\* Effect.all.
TaskCompletes(i, out) ==
  /\ call \in {"timeout", "parallel"} /\ pc = "all"
  /\ tasks[i] = "running"
  /\ exit = NoExit
  /\ out \in Outcomes
  /\ LET x == TaskResult(i, out) IN
       /\ results' = [results EXCEPT ![i] = x]
       /\ tasks' = [tasks EXCEPT ![i] = IF x.ok THEN "ok" ELSE "err"]
       /\ exit' = IF x.ok THEN exit ELSE x
  /\ order' = Append(order, i)
  /\ inUse' = TicketsAfterRelease(inUse)
  /\ UNCHANGED << extVars, call, arg, pc, retryVars, guardVars, collected, delivered,
                  scopeVars, fallbackEvaluated >>

\* After a failure, or after the deadline, the tasks still running are
\* interrupted.
TaskInterrupted(i) ==
  /\ call \in {"timeout", "parallel"}
  /\ tasks[i] = "running"
  /\ exit # NoExit \/ pc = "timedout"
  /\ tasks' = [tasks EXCEPT ![i] = "interrupted"]
  /\ inUse' = TicketsAfterRelease(inUse)
  /\ UNCHANGED << extVars, call, arg, pc, retryVars, exit, guardVars, results, order,
                  collected, delivered, scopeVars, fallbackEvaluated >>

\* Every task succeeded: Effect.all succeeds and the deadline is cancelled.
AllSucceeds ==
  /\ call \in {"timeout", "parallel"} /\ pc = "all"
  /\ \A i \in TaskIds : tasks[i] = "ok"
  /\ collected' = Collected
  /\ pc' = "map"
  /\ timer' = IF call = "timeout" THEN TimerAfterOp ELSE timer
  /\ guardLog' = IF call = "timeout" THEN Append(guardLog, GuardEvent("result"))
                 ELSE guardLog
  /\ UNCHANGED << extVars, window, call, arg, retryVars, exit, op, tasks, results, order, inUse,
                  delivered, scopeVars, fallbackEvaluated >>

\* A task failed and no task is running any more: Effect.all fails with the
\* first failure, which Effect.match hands to the caller.
AllFails ==
  /\ call \in {"timeout", "parallel"} /\ pc = "all"
  /\ exit # NoExit
  /\ Running = {}
  /\ pc' = "done"
  /\ timer' = IF call = "timeout" THEN TimerAfterOp ELSE timer
  /\ guardLog' = IF call = "timeout" THEN Append(guardLog, GuardEvent("result"))
                 ELSE guardLog
  /\ delivered' = Append(delivered,
                         IF call = "timeout" THEN MatchTimeout(exit) ELSE Match(exit))
  /\ UNCHANGED << extVars, window, call, arg, retryVars, exit, op, allVars, scopeVars,
                  fallbackEvaluated >>

\* Effect.map builds the summary; Effect.match hands it to the caller.
MapSummary ==
  /\ call \in {"timeout", "parallel"} /\ pc = "map"
  /\ pc' = "done"
  /\ LET x == Ok(UserData(collected[1], collected[2])) IN
       delivered' = Append(delivered,
                           IF call = "timeout" THEN MatchTimeout(x) ELSE Match(x))
  /\ UNCHANGED << extVars, call, arg, retryVars, exit, guardVars, allVars, scopeVars,
                  fallbackEvaluated >>

\* The 5 s deadline fires before Effect.all has ended.
AllDeadlineFires ==
  /\ call = "timeout" /\ timer = "armed"
  /\ timer' = "fired"
  /\ pc' = "timedout"
  /\ guardLog' = Append(guardLog, GuardEvent("timeout"))
  /\ UNCHANGED << extVars, window, call, arg, retryVars, exit, op, allVars, delivered, scopeVars,
                  fallbackEvaluated >>

\* Once the interrupted tasks have ended the guard fails with TimeoutException.
TimeoutReturn ==
  /\ call = "timeout" /\ pc = "timedout"
  /\ Running = {}
  /\ pc' = "done"
  /\ delivered' = Append(delivered, MatchTimeout(Err(TimeoutException)))
  /\ UNCHANGED << extVars, call, arg, retryVars, exit, guardVars, allVars, scopeVars,
                  fallbackEvaluated >>

\* ------------------------------------ processPostsWithResourceManagement
Interrupted == Err([_tag |-> "Interrupt", message |-> ""])

\* What the page's catch block stores when Effect.runPromise rejects.
Rejected ==
  [success |-> FALSE,
   error |-> [type |-> "UnknownError", message |-> "Failed to process stats"]]

\* Effect.map(posts => stats); processingTime is a wall-clock reading, left out.
Stats(posts) == [total |-> posts.length]

\* Effect.acquireUseRelease runs release on every exit of use.
ReleaseCount_SuccessOnly(x) == IF x.ok THEN 1 ELSE 0

ReleaseCount(x) == 1

Acquire ==
  /\ call = "resource" /\ pc = "idle"
  /\ acquired' = acquired + 1
  /\ processed' = 0
  /\ pc' = "acquired"
  /\ UNCHANGED << extVars, call, arg, retryVars, exit, guardVars, allVars, delivered,
                  released, bodyStarted, fallbackEvaluated >>

\* use(context): api.getPosts() is invoked.
BodyStart ==
  /\ call = "resource" /\ pc = "acquired"
  /\ bodyStarted' = TRUE
  /\ attempts' = attempts + 1
  /\ pc' = "use"
  /\ UNCHANGED << extVars, call, arg, failures, sched, waits, exit, guardVars, allVars, delivered,
                  acquired, released, processed, fallbackEvaluated >>

\* context.processed once the body has ended with x: Effect.map runs
\* `context.processed = posts.length` only when getPosts succeeded.
ProcessedAfter_Unset(x, p) == p

ProcessedAfter(x, p) == IF x.ok THEN x.value.length ELSE p

\* getPosts ends; on success the body sets context.processed.
BodyCompletes(net) ==
  /\ call = "resource" /\ pc = "use"
  /\ LET x == SimpleGetPosts(net) IN
       /\ exit' = IF x.ok THEN Ok(Stats(x.value)) ELSE x
       /\ processed' = ProcessedAfter(x, processed)
  /\ pc' = "release"
  /\ UNCHANGED << extVars, call, arg, retryVars, guardVars, allVars, delivered,
                  acquired, released, bodyStarted, fallbackEvaluated >>

\* The fiber is interrupted while the body waits for getPosts.
BodyInterrupted ==
  /\ call = "resource" /\ pc = "use"
  /\ exit' = Interrupted
  /\ pc' = "release"
  /\ UNCHANGED << extVars, call, arg, retryVars, guardVars, allVars, delivered,
                  scopeVars, fallbackEvaluated >>

Release ==
  /\ call = "resource" /\ pc = "release"
  /\ released' = released + ReleaseCount(exit)
  /\ pc' = "deliver"
  /\ UNCHANGED << extVars, call, arg, retryVars, exit, guardVars, allVars, delivered,
                  acquired, bodyStarted, processed, fallbackEvaluated >>

ScopeDeliver ==
  /\ call = "resource" /\ pc = "deliver"
  /\ delivered' = Append(delivered, IF exit = Interrupted THEN Rejected ELSE Match(exit))
  /\ pc' = "done"
  /\ UNCHANGED << extVars, call, arg, retryVars, exit, guardVars, allVars, scopeVars,
                  fallbackEvaluated >>

\* -------------------------------------------- reliableOperation (README)
\* pipe(riskyOperation(), Effect.retry(retryPolicy),
\*      Effect.timeout(Duration.seconds(30))): one deadline around the whole
\* retry loop.
ReliableTimeoutMs == 30000

RiskyError == [_tag |-> "RiskyError", message |-> "risky operation failed"]

\* Where the retry loop stands once the outer deadline has interrupted it.
PcAfterDeadline_KeepsWaiting(p) == p

PcAfterDeadline(p) == "done"

ReliableStart ==
  /\ call = "reliable" /\ pc = "idle"
  /\ pc' = "running"
  /\ attempts' = attempts + 1
  /\ timer' = "armed"
  /\ window' = ReliableTimeoutMs
  /\ UNCHANGED << extVars, call, arg, failures, sched, waits, exit, op, guardLog, allVars,
                  delivered, scopeVars, fallbackEvaluated >>

RiskyCompletes(good, j) ==
  /\ call = "reliable" /\ pc = "running" /\ timer = "armed"
  /\ IF good
     THEN /\ exit' = Ok("value")
          /\ pc' = "done"
          /\ delivered' = Append(delivered, Ok("value"))
          /\ UNCHANGED << failures, sched, waits >>
     ELSE RetryOrFail(RiskyError, Jittered(Exponential(sched), j), Err(RiskyError))
  /\ IF pc' = "done"
     THEN /\ timer' = TimerAfterOp
          /\ guardLog' = Append(guardLog, [inv |-> 1, out |-> "result"])
     ELSE UNCHANGED << timer, guardLog >>
  /\ UNCHANGED << extVars, window, call, arg, attempts, op, allVars, scopeVars,
                  fallbackEvaluated >>

ReliableBackoffElapsed ==
  /\ call = "reliable" /\ BackoffOver
  /\ pc' = "running"
  /\ attempts' = attempts + 1
  /\ UNCHANGED << extVars, call, arg, failures, sched, waits, exit, guardVars, allVars,
                  delivered, scopeVars, fallbackEvaluated >>

\* The 30 s deadline fires while an attempt runs or a backoff is waited out.
ReliableDeadlineFires ==
  /\ call = "reliable" /\ timer = "armed"
  /\ timer' = "fired"
  /\ pc' = PcAfterDeadline(pc)
  /\ guardLog' = Append(guardLog, [inv |-> 1, out |-> "timeout"])
  /\ delivered' = Append(delivered, Err(TimeoutException))
  /\ UNCHANGED << extVars, window, call, arg, retryVars, exit, op, allVars, scopeVars,
                  fallbackEvaluated >>

\* ---------------------------------------------------- fetchPostWithCaching
\* const cache = new Map<number, Post>()
NewCache == {}

\* cache.get(id): the entries stored under the key.
CacheGet(c, id) == {e \in c : e.id = id}

\* cache.set(id, post)
CacheSet(c, id, post) == {e \in c : e.id # id} \cup {[id |-> id, post |-> post]}

\* api.getPost(id) of the HTTP service, with makeRequest's error mapping.
HttpGetPost(id, out) ==
  IF out = "ok" THEN Ok(RemotePost(id)) ELSE Err(CatchTags(FailureOf(out)))

\* fetchPostWithCaching(id) is called and the effect it returns is run.
CachingCall ==
  /\ call = "caching" /\ pc = "idle"
  /\ cache' = NewCache
  /\ pc' = "lookup"
  /\ UNCHANGED << moreVars, previous, users, input, response, call, arg, retryVars, exit, guardVars,
                  allVars, delivered, scopeVars, fallbackEvaluated >>

\* Effect.sync(() => cache.get(id)) and the branch on `cached`.
CacheLookup ==
  /\ call = "caching" /\ pc = "lookup"
  /\ IF CacheGet(cache, arg) # {}
     THEN /\ \E e \in CacheGet(cache, arg) :
               /\ exit' = Ok(e.post)
               /\ delivered' = Append(delivered, Match(Ok(e.post)))
          /\ pc' = "done"
          /\ UNCHANGED attempts
     ELSE /\ pc' = "running"
          /\ attempts' = attempts + 1
          /\ UNCHANGED << exit, delivered >>
  /\ UNCHANGED << extVars, call, arg, failures, sched, waits, guardVars, allVars, scopeVars,
                  fallbackEvaluated >>

\* api.getPost(id) ends; Effect.tap stores a fetched post; Effect.match.
CachingGetPostCompletes(out) ==
  /\ call = "caching" /\ pc = "running"
  /\ LET x == HttpGetPost(arg, out) IN
       /\ exit' = x
       /\ failures' = IF x.ok THEN failures ELSE failures + 1
       /\ cache' = IF x.ok THEN CacheSet(cache, arg, x.value) ELSE cache
       /\ delivered' = Append(delivered, Match(x))
  /\ pc' = "done"
  /\ UNCHANGED << moreVars, previous, users, input, response, call, arg, attempts, sched, waits,
                  guardVars, allVars, scopeVars, fallbackEvaluated >>

\* A later call fetchPostWithCaching(id) with the same id: the function body
\* runs again, so it starts from `new Map()`.
CachingCallAgain ==
  /\ call = "caching" /\ pc = "done" /\ previous = << >>
  /\ previous' = delivered
  /\ delivered' = << >>
  /\ exit' = NoExit
  /\ cache' = NewCache
  /\ pc' = "lookup"
  /\ UNCHANGED << moreVars, users, input, response, call, arg, retryVars, guardVars, allVars,
                  scopeVars, fallbackEvaluated >>

\* ------------------------------------------------------- POST /api/users
\* JavaScript's -Infinity, the value of Math.max() with no arguments; it
\* lies below every id and absorbs addition.
NegInfinity == -1000000

IsFinite(n) == n # NegInfinity

JsAdd(n, k) == IF IsFinite(n) THEN n + k ELSE n

\* `${n}` for a number.
NumberText(n) == IF IsFinite(n) THEN ToString(n) ELSE "-Infinity"

\* Math.max(...mockUsers.map(u => u.id))
RECURSIVE MaxId(_)
MaxId(us) ==
  IF us = << >> THEN NegInfinity
  ELSE LET m == MaxId(Tail(us)) IN IF us[1].id > m THEN us[1].id ELSE m

\* createUser(userData): { ...userData, id: max + 1 } is pushed and returned.
NewUser(us, data) ==
  [id |-> JsAdd(MaxId(us), 1), name |-> data.name, email |-> data.email,
   isActive |-> data.isActive]

UserNotFoundError(id) == [_tag |-> "UserNotFoundError", userId |-> id, message |-> ""]

\* findIndex(user => user.id === id), counted from 1; 0 where JavaScript has -1.
FindIndex(us, id) ==
  IF \E k \in DOMAIN us : us[k].id = id
  THEN CHOOSE k \in DOMAIN us : us[k].id = id /\ \A j \in 1 .. k - 1 : us[j].id # id
  ELSE 0

\* { ...user, ...userData }
Spread(user, userData) ==
  [f \in DOMAIN user |-> IF f \in DOMAIN userData THEN userData[f] ELSE user[f]]

\* splice(index, 1)
Splice(us, k) == SubSeq(us, 1, k - 1) \o SubSeq(us, k + 1, Len(us))

\* Each operation of makeUserService as [exit, store]: the Effect it returns
\* and mockUsers afterwards.
GetUser(us, id) ==
  LET k == FindIndex(us, id) IN
    [exit |-> IF k = 0 THEN Err(UserNotFoundError(id)) ELSE Ok(us[k]), store |-> us]

CreateUser(us, data) ==
  LET u == NewUser(us, data) IN [exit |-> Ok(u), store |-> Append(us, u)]

UpdateUser(us, id, userData) ==
  LET k == FindIndex(us, id) IN
    IF k = 0 THEN [exit |-> Err(UserNotFoundError(id)), store |-> us]
    ELSE LET updatedUser == Spread(us[k], userData) IN
           [exit |-> Ok(updatedUser), store |-> [us EXCEPT ![k] = updatedUser]]

DeleteUser(us, id) ==
  LET k == FindIndex(us, id) IN
    IF k = 0 THEN [exit |-> Err(UserNotFoundError(id)), store |-> us]
    ELSE [exit |-> Ok("undefined"), store |-> Splice(us, k)]

\* Effect.match of runUserOperation.
RunUserOperation(x) ==
  IF x.ok THEN [success |-> TRUE, data |-> x.value]
  ELSE [success |-> FALSE,
        error |-> [type |-> x.error._tag,
                   message |-> IF x.error._tag = "UserNotFoundError"
                               THEN "User with ID " \o NumberText(x.error.userId)
                                      \o " not found"
                               ELSE IF x.error.message = "" THEN "An error occurred"
                               ELSE x.error.message]]

StatusOf(result) ==
  IF result.success THEN 201
  ELSE IF result.error.type = "InvalidUserDataError" THEN 400 ELSE 500

\* The POST handler: request.json(), createUser through runUserOperation,
\* then the response; a body that is not JSON ends in the catch block.
Post ==
  /\ call = "createUser" /\ pc = "idle"
  /\ IF input.parses
     THEN LET r == CreateUser(users, input)
              result == RunUserOperation(r.exit) IN
            /\ users' = r.store
            /\ exit' = r.exit
            /\ delivered' = Append(delivered, result)
            /\ response' = [status |-> StatusOf(result)]
     ELSE /\ response' = [status |-> 500]
          /\ UNCHANGED << users, exit, delivered >>
  /\ pc' = "done"
  /\ UNCHANGED << moreVars, cache, previous, input, call, arg, retryVars, guardVars, allVars,
                  scopeVars, fallbackEvaluated >>

\* ------------------------------------------------- user service, any calls
\* Ids the callers pass: the three mock users, the first id createUser hands
\* out, and one that is never in the store.
StoreIds == {1, 2, 3, 4, MissingId}

\* Partial<User> records given to updateUser.
Patches == { [name |-> << "Z", "e", "d" >>], [id |-> 1], [isActive |-> FALSE] }

NewUserData == [name |-> << "D", "a", "n", "a" >>, email |-> << "d", "@", "x", ".", "y" >>, isActive |-> TRUE]

\* runUserOperation(service.<name>(...)) against the module-level store.
StoreOp(name, id, data, r) ==
  /\ call = "store" /\ opCount < MaxOps
  /\ opCount' = opCount + 1
  /\ lastOp' = [name |-> name, id |-> id, data |-> data]
  /\ before' = users
  /\ users' = r.store
  /\ last' = RunUserOperation(r.exit)
  /\ UNCHANGED << pageVars, formVars, cache, previous, input, response, call, arg, pc,
                  retryVars, exit, guardVars, allVars, delivered, scopeVars, fallbackEvaluated >>

StoreGet(id) == StoreOp("get", id, << >>, GetUser(users, id))

StoreCreate == StoreOp("create", 0, NewUserData, CreateUser(users, NewUserData))

StoreUpdate(id, patch) == StoreOp("update", id, patch, UpdateUser(users, id, patch))

StoreDelete(id) == StoreOp("delete", id, << >>, DeleteUser(users, id))

\* ------------------------------------------------------- main page loads
\* What each catch block stores when Effect.runPromise rejects.
CatchResult(fn) ==
  IF fn = "stats" THEN Rejected
  ELSE [success |-> FALSE,
        error |-> [type |-> "UnknownError",
                   message |-> CASE fn = "posts" -> "Failed to load posts"
                                 [] fn = "post"  -> "Failed to load post"
                                 [] OTHER        -> "Failed to load user data"]]

\* The values Effect.runPromise of the load's effect can resolve to.
EffectResults(fn, a) ==
  CASE fn = "posts" -> {Match(SimpleGetPosts(net)) : net \in {"ok", "fail"}}
    [] fn = "post" -> {Match(OrElse(SimpleGetPost(a, net), a)) : net \in {"ok", "fail"}}
    [] fn = "userData" ->
         { MatchTimeout(Ok(UserData(SimpleGetPost(a, "ok").value,
                                    SimpleGetTodos(a, "ok").value))),
           MatchTimeout(SimpleGetPost(a, "fail")),
           MatchTimeout(SimpleGetTodos(a, "fail")),
           MatchTimeout(Err(TimeoutException)) }
    [] OTHER -> { Match(Ok(Stats(SimpleGetPosts("ok").value))),
                  Match(SimpleGetPosts("fail")) }

\* The buttons of the page: [fn, a].
Buttons ==
  { [fn |-> "posts", a |-> 0], [fn |-> "post", a |-> 1], [fn |-> "post", a |-> MissingId],
    [fn |-> "userData", a |-> 1], [fn |-> "userData", a |-> 2], [fn |-> "stats", a |-> 0] }

\* The Retry button is rendered only while a failed postsResult is shown.
Rendered(b) ==
  b.fn = "posts" =>
    (~loading.posts /\ pageResult.posts # Null /\ ~pageResult.posts.success)

\* loading.<fn> = false, the last statement of every load function.
FlagAfterLoad_SuccessOnly(r) == ~r.success

FlagAfterLoad(r) == FALSE

pageRest ==
  << storeVars, formVars, cache, previous, users, input, response, call, arg, pc, retryVars, exit,
     guardVars, allVars, delivered, scopeVars, fallbackEvaluated >>

\* onMount: each of the four loads runs up to its await.
OnMount ==
  /\ call = "page" /\ started = 0
  /\ loading' = [fn \in Loads |-> TRUE]
  /\ inflight' = { [fn |-> "posts", seq |-> 1, a |-> 0], [fn |-> "post", seq |-> 2, a |-> 1],
                   [fn |-> "userData", seq |-> 3, a |-> 1], [fn |-> "stats", seq |-> 4, a |-> 0] }
  /\ newest' = [posts |-> 1, post |-> 2, userData |-> 3, stats |-> 4]
  /\ started' = 4
  /\ UNCHANGED << pageResult, clicks, shown, pageRest >>

\* A button's onclick: the load function runs up to its await.
Click(b) ==
  /\ call = "page" /\ started > 0 /\ clicks < MaxClicks
  /\ Rendered(b)
  /\ loading' = [loading EXCEPT ![b.fn] = TRUE]
  /\ inflight' = inflight \cup {[fn |-> b.fn, seq |-> started + 1, a |-> b.a]}
  /\ newest' = [newest EXCEPT ![b.fn] = started + 1]
  /\ started' = started + 1
  /\ clicks' = clicks + 1
  /\ UNCHANGED << pageResult, shown, pageRest >>

\* The awaited promise of call c settles with r: the result variable is
\* assigned and the flag is cleared in the same turn.
Settle(c, r) ==
  /\ call = "page" /\ c \in inflight
  /\ pageResult' = [pageResult EXCEPT ![c.fn] = r]
  /\ loading' = [loading EXCEPT ![c.fn] = FlagAfterLoad(r)]
  /\ shown' = [shown EXCEPT ![c.fn] = c.seq]
  /\ inflight' = inflight \ {c}
  /\ UNCHANGED << started, clicks, newest, pageRest >>

LoadResolves(c, r) == r \in EffectResults(c.fn, c.a) /\ Settle(c, r)

LoadRejects(c) == Settle(c, CatchResult(c.fn))

\* ------------------------------------------------------------- forms page
\* String.prototype.trim, for the blank the forms can hold.
RECURSIVE TrimStart(_)
TrimStart(t) == IF t # << >> /\ Head(t) = " " THEN TrimStart(Tail(t)) ELSE t

RECURSIVE TrimEnd(_)
TrimEnd(t) ==
  IF t # << >> /\ t[Len(t)] = " " THEN TrimEnd(SubSeq(t, 1, Len(t) - 1)) ELSE t

Trim(t) == TrimEnd(TrimStart(t))

UpperCase == << "A", "B", "C", "D", "E", "F", "G", "H", "I", "J", "K", "L", "M", "N", "O", "P", "Q", "R", "S", "T", "U", "V", "W", "X", "Y", "Z" >>

LowerCase == << "a", "b", "c", "d", "e", "f", "g", "h", "i", "j", "k", "l", "m", "n", "o", "p", "q", "r", "s", "t", "u", "v", "w", "x", "y", "z" >>

\* String.prototype.toLowerCase
ToLowerCase(t) ==
  [k \in DOMAIN t |->
     IF \E n \in DOMAIN UpperCase : UpperCase[n] = t[k]
     THEN LowerCase[CHOOSE n \in DOMAIN UpperCase : UpperCase[n] = t[k]]
     ELSE t[k]]

\* validateForm: normalise, then collect the messages; fails with the record
\* of messages when there is one.
NormalizedData(data) ==
  [name |-> Trim(data.name), email |-> ToLowerCase(Trim(data.email)),
   isActive |-> data.isActive]

FieldError(nd, f) ==
  IF f = "name"
  THEN IF nd.name = << >> THEN "Name is required"
       ELSE IF Len(nd.name) < 2 THEN "Name must be at least 2 characters"
       ELSE ""
  ELSE IF nd.email = << >> THEN "Email is required"
       ELSE IF ~EmailPattern(nd.email) THEN "Please enter a valid email address"
       ELSE ""

ValidationErrors(data) ==
  LET nd == NormalizedData(data) IN
    [f \in {g \in {"name", "email"} : FieldError(nd, g) # ""} |-> FieldError(nd, f)]

ValidateForm(data) ==
  IF DOMAIN ValidationErrors(data) # {} THEN Err(ValidationErrors(data))
  ELSE Ok(NormalizedData(data))

\* What `catch` receives when Effect.runPromise rejects for a failure e:
\* the FiberFailure error Effect wraps the cause in.
RunPromiseRejection(e) == [name |-> "(FiberFailure) Error", cause |-> e]

formsRest ==
  << pageVars, cache, previous, input, response, call, arg, retryVars, exit, guardVars,
     allVars, delivered, scopeVars, fallbackEvaluated >>

FormsReady == call = "forms" /\ pc = "mounted" /\ pending = "none"

\* onMount(loadUsers)
FormsMount ==
  /\ call = "forms" /\ pc = "idle"
  /\ pageUsers' = users
  /\ pc' = "mounted"
  /\ UNCHANGED << formData, updateFormData, formErrors, isSubmitting, submitResult,
                  selectedUserId, pending, storeVars, users, formsRest >>

\* bind:value / bind:checked of the create form.
TypeForm(d) ==
  /\ FormsReady /\ d # formData
  /\ formData' = d
  /\ UNCHANGED << updateFormData, formErrors, isSubmitting, submitResult, pageUsers,
                  selectedUserId, pending, storeVars, users, pc, formsRest >>

\* bind:value / bind:checked of the edit form, rendered while a user is selected.
EditUpdateForm(d) ==
  /\ FormsReady /\ selectedUserId # 0 /\ d # updateFormData
  /\ updateFormData' = d
  /\ UNCHANGED << formData, formErrors, isSubmitting, submitResult, pageUsers,
                  selectedUserId, pending, storeVars, users, pc, formsRest >>

FormOp(name, id, data) ==
  /\ opCount < MaxOps
  /\ opCount' = opCount + 1
  /\ lastOp' = [name |-> name, id |-> id, data |-> data]
  /\ before' = users

SelectUser(k) ==
  /\ FormsReady /\ k \in DOMAIN pageUsers
  /\ FormOp("select", pageUsers[k].id, << >>)
  /\ selectedUserId' = pageUsers[k].id
  /\ updateFormData' = [name |-> pageUsers[k].name, email |-> pageUsers[k].email,
                        isActive |-> pageUsers[k].isActive]
  /\ UNCHANGED << formData, formErrors, isSubmitting, submitResult, pageUsers, pending,
                  last, users, pc, formsRest >>

\* The Cancel button of the edit form.
Cancel ==
  /\ FormsReady /\ selectedUserId # 0
  /\ FormOp("cancel", selectedUserId, << >>)
  /\ selectedUserId' = 0
  /\ UNCHANGED << formData, updateFormData, formErrors, isSubmitting, submitResult,
                  pageUsers, pending, last, users, pc, formsRest >>

\* handleSubmit up to its first await.
SubmitStart ==
  /\ FormsReady
  /\ FormOp("submit", 0, formData)
  /\ isSubmitting' = TRUE
  /\ formErrors' = << >>
  /\ submitResult' = Null
  /\ pending' = "submit"
  /\ last' = NoResult
  /\ UNCHANGED << formData, updateFormData, pageUsers, selectedUserId, users, pc,
                  formsRest >>

\* handleSubmit from validateForm to its end.
SubmitFinish ==
  /\ call = "forms" /\ pending = "submit"
  /\ LET v == ValidateForm(formData) IN
       IF v.ok
       THEN LET r == CreateUser(users, v.value)
                result == RunUserOperation(r.exit) IN
              /\ users' = r.store
              /\ last' = result
              /\ IF result.success
                 THEN /\ submitResult' = [success |-> TRUE, user |-> result.data]
                      /\ formData' = EmptyForm
                      /\ pageUsers' = r.store
                 ELSE /\ submitResult' = [success |-> FALSE, error |-> result.error]
                      /\ UNCHANGED << formData, pageUsers >>
              /\ UNCHANGED formErrors
       ELSE /\ formErrors' = RunPromiseRejection(v.error)
            /\ UNCHANGED << users, last, submitResult, formData, pageUsers >>
  /\ isSubmitting' = FALSE
  /\ pending' = "none"
  /\ UNCHANGED << updateFormData, selectedUserId, opCount, lastOp, before, pc, formsRest >>

\* handleUpdate up to its first await; it returns at once without a selection.
UpdateStart ==
  /\ FormsReady /\ selectedUserId # 0
  /\ FormOp("update", selectedUserId, updateFormData)
  /\ isSubmitting' = TRUE
  /\ pending' = "update"
  /\ last' = NoResult
  /\ UNCHANGED << formData, updateFormData, formErrors, submitResult, pageUsers,
                  selectedUserId, users, pc, formsRest >>

\* handleUpdate from validateForm to its end.
UpdateFinish ==
  /\ call = "forms" /\ pending = "update"
  /\ LET v == ValidateForm(updateFormData) IN
       IF v.ok
       THEN LET r == UpdateUser(users, selectedUserId, v.value)
                result == RunUserOperation(r.exit) IN
              /\ users' = r.store
              /\ last' = result
              /\ IF result.success
                 THEN /\ submitResult' = [success |-> TRUE,
                                          message |-> "User updated successfully"]
                      /\ pageUsers' = r.store
                      /\ selectedUserId' = 0
                      /\ updateFormData' = EmptyForm
                 ELSE /\ submitResult' = [success |-> FALSE, error |-> result.error]
                      /\ UNCHANGED << pageUsers, selectedUserId, updateFormData >>
              /\ UNCHANGED formErrors
       ELSE /\ formErrors' = RunPromiseRejection(v.error)
            /\ UNCHANGED << users, last, submitResult, pageUsers, selectedUserId,
                            updateFormData >>
  /\ isSubmitting' = FALSE
  /\ pending' = "none"
  /\ UNCHANGED << formData, opCount, lastOp, before, pc, formsRest >>

\* handleDelete(user.id) of a rendered user, confirmed.
HandleDelete(k) ==
  /\ FormsReady /\ k \in DOMAIN pageUsers
  /\ FormOp("delete", pageUsers[k].id, << >>)
  /\ LET r == DeleteUser(users, pageUsers[k].id)
         result == RunUserOperation(r.exit) IN
       /\ users' = r.store
       /\ last' = result
       /\ IF result.success
          THEN /\ submitResult' = [success |-> TRUE,
                                   message |-> "User deleted successfully"]
               /\ pageUsers' = r.store
          ELSE /\ submitResult' = [success |-> FALSE, error |-> result.error]
               /\ UNCHANGED pageUsers
  /\ UNCHANGED << formData, updateFormData, formErrors, isSubmitting, selectedUserId,
                  pending, pc, formsRest >>

\* ------------------------------------------------------------------- runs
Next ==
  \/ RetryStart
  \/ \E net \in {"ok", "fail"} : GetPostsCompletes(net)
  \/ RetryBackoffElapsed
  \/ RequestStart
  \/ ExecuteResponds
  \/ \E e \in ExecuteFailures, j \in 0 .. JitterSteps - 1 : ExecuteFails(e, j)
  \/ \E j \in 0 .. JitterSteps - 1 : RequestDeadlineFires(j)
  \/ RequestBackoffElapsed
  \/ \E good \in BOOLEAN : JsonStep(good)
  \/ \E good \in BOOLEAN : DecodeStep(good)
  \/ FallbackStart
  \/ \E net \in {"ok", "fail"} : GetPostCompletes(net)
  \/ OrElseStep
  \/ AllStart
  \/ \E i \in TaskIds : TaskStart(i)
  \/ \E i \in TaskIds, out \in Outcomes : TaskCompletes(i, out)
  \/ \E i \in TaskIds : TaskInterrupted(i)
  \/ AllSucceeds
  \/ AllFails
  \/ MapSummary
  \/ AllDeadlineFires
  \/ TimeoutReturn
  \/ Acquire
  \/ BodyStart
  \/ \E net \in {"ok", "fail"} : BodyCompletes(net)
  \/ BodyInterrupted
  \/ Release
  \/ ScopeDeliver
  \/ ReliableStart
  \/ \E good \in BOOLEAN, j \in 0 .. JitterSteps - 1 : RiskyCompletes(good, j)
  \/ ReliableBackoffElapsed
  \/ ReliableDeadlineFires
  \/ CachingCall
  \/ CacheLookup
  \/ \E out \in Outcomes : CachingGetPostCompletes(out)
  \/ CachingCallAgain
  \/ Post
  \/ \E id \in StoreIds : StoreGet(id)
  \/ StoreCreate
  \/ \E id \in StoreIds, patch \in Patches : StoreUpdate(id, patch)
  \/ \E id \in StoreIds : StoreDelete(id)
  \/ OnMount
  \/ \E b \in Buttons : Click(b)
  \/ \E c \in inflight : \E r \in EffectResults(c.fn, c.a) : LoadResolves(c, r)
  \/ \E c \in inflight : LoadRejects(c)
  \/ FormsMount
  \/ \E d \in FormInputs : TypeForm(d)
  \/ \E d \in FormInputs : EditUpdateForm(d)
  \/ \E k \in DOMAIN pageUsers : SelectUser(k)
  \/ Cancel
  \/ SubmitStart
  \/ SubmitFinish
  \/ UpdateStart
  \/ UpdateFinish
  \/ \E k \in DOMAIN pageUsers : HandleDelete(k)

Spec == Init /\ [][Next]_vars

\* Every attempt of getPosts ends (simulateNetworkCall sleeps at most 600 ms)
\* and every backoff sleep of the schedule ends.
RetryFairness ==
  /\ WF_vars(RetryStart)
  /\ WF_vars(\E net \in {"ok", "fail"} : GetPostsCompletes(net))
  /\ WF_vars(RetryBackoffElapsed)

\* Every promise a load function awaits settles: each of the four effects ends
\* (bounded retries, bounded sleeps, the 5 s deadline).
PageFairness ==
  WF_vars(\E c \in inflight :
            \/ \E r \in EffectResults(c.fn, c.a) : LoadResolves(c, r)
            \/ LoadRejects(c))

FairSpec == Init /\ [][Next]_vars /\ RetryFairness /\ PageFairness

\* ================================================================ claims
RetryCalls == {"retry", "request"}

AllCalls == {"timeout", "parallel"}

\* The retry loop has ended and every attempt of it failed.
AlwaysFailed == call \in RetryCalls /\ pc = "done" /\ failures = attempts

\* C1 (as stated): an operation that fails on every attempt is invoked exactly
\* n = 3 times in total under Schedule.recurs(3).
C1_InvokedExactlyN == AlwaysFailed => attempts = Recurs

\* C1 (amended): an operation that fails on every attempt is invoked exactly
\* n + 1 = 4 times: the first attempt plus the 3 recurrences the schedule
\* grants; no run invokes it more than 4 times.
C1_InvokedNPlusOne ==
  /\ AlwaysFailed => attempts = Recurs + 1
  /\ call \in RetryCalls => attempts <= Recurs + 1

C1_Witness == call = "retry" /\ AlwaysFailed /\ ~delivered[1].success

\* C2 (as stated): every jittered delay of makeRequest's retry lies in
\* [0, 100 ms * 2^k], never above the un-jittered delay.
C2_FullJitter ==
  call = "request" =>
    \A k \in DOMAIN waits : 0 <= waits[k] /\ waits[k] <= Exponential(k - 1)

\* C2 (amended): the delay before recurrence k lies in
\* [0.8 * d, 1.2 * d) for d = 100 ms * 2^k, so it is never negative and may
\* exceed the un-jittered delay by up to 20 %.
C2_JitterBand ==
  call = "request" =>
    \A k \in DOMAIN waits :
      /\ 8 * Exponential(k - 1) <= 10 * waits[k]
      /\ 10 * waits[k] < 12 * Exponential(k - 1)

C2_Witness ==
  /\ call = "request"
  /\ Len(waits) = Recurs
  /\ waits[1] < Exponential(0)
  /\ waits[Recurs] > Exponential(Recurs - 1)

\* C3: a timeout-guarded invocation yields exactly one outcome: the guard
\* never produces two outcomes for the same invocation, the caller is handed
\* at most one result, and no success is delivered once the 5 s deadline of
\* fetchUserDataWithTimeout has fired.
C3_OneOutcome ==
  /\ \A a, b \in DOMAIN guardLog : guardLog[a].inv = guardLog[b].inv => a = b
  /\ Len(delivered) <= 1
  /\ (call = "timeout" /\ timer = "fired") =>
       \A k \in DOMAIN delivered : ~delivered[k].success

C3_Witness ==
  /\ call = "timeout" /\ pc = "done"
  /\ timer = "fired"
  /\ \E i \in TaskIds : tasks[i] = "ok"
  /\ Len(delivered) = 1

\* The run has ended and every guarded invocation of it ran into its deadline.
TimedOutRun ==
  /\ call \in {"timeout", "request"} /\ pc = "done"
  /\ guardLog # << >>
  /\ \A k \in DOMAIN guardLog : guardLog[k].out = "timeout"

\* C4 (as stated): whenever the deadline fired, the error surfaced to the
\* caller has kind Timeout, for fetchUserDataWithTimeout and for makeRequest.
C4_AlwaysTimeoutKind ==
  TimedOutRun =>
    /\ Len(delivered) = 1
    /\ ~delivered[1].success
    /\ delivered[1].error.type = "Timeout"

\* C4 (amended): fetchUserDataWithTimeout surfaces type 'Timeout' with message
\* 'Request timed out'; a makeRequest call whose every attempt ran into the
\* 10 s deadline surfaces type 'NetworkError' with message 'Request timed out'.
C4_TimeoutSurfaced ==
  TimedOutRun =>
    /\ Len(delivered) = 1
    /\ ~delivered[1].success
    /\ delivered[1].error.message = "Request timed out"
    /\ delivered[1].error.type =
         (IF call = "timeout" THEN "Timeout" ELSE "NetworkError")

C4_Witness == TimedOutRun /\ call = "request" /\ attempts = Recurs + 1

\* C5: once acquire has succeeded, release runs exactly once on every exit of
\* the body (success, failure, interruption), never twice, and never before
\* the body has started.
C5_ReleaseExactlyOnce ==
  call = "resource" =>
    /\ released <= 1
    /\ released > 0 => (acquired = 1 /\ bodyStarted)
    /\ (acquired = 1 /\ pc \in {"deliver", "done"}) => released = 1
    /\ delivered # << >> => released = 1

C5_Witness ==
  /\ call = "resource" /\ pc = "done"
  /\ exit = Interrupted
  /\ released = 1

\* C6: fetchPostWithFallback never yields a failure; when getPost fails
\* (absent id or network failure) the caller gets {success: true} with the
\* fallback post: title 'Fallback Post', the requested id, userId 0.
C6_FallbackOnFailure ==
  (call = "fallback" /\ pc = "done") =>
    /\ Len(delivered) = 1
    /\ delivered[1].success
    /\ ~exit.ok =>
         /\ delivered[1].data.title = "Fallback Post"
         /\ delivered[1].data.id = arg
         /\ delivered[1].data.userId = 0

C6_Witness ==
  /\ call = "fallback" /\ pc = "done"
  /\ arg = MissingId
  /\ ~exit.ok /\ exit.error._tag = "ApiError"

\* C7: when getPost succeeds (ids 1, 2, 3) the fallback is not evaluated and
\* the caller gets the stored post with the requested id.
C7_NoFallbackOnSuccess ==
  (call = "fallback" /\ pc = "done" /\ exit.ok) =>
    /\ arg \in {1, 2, 3}
    /\ ~fallbackEvaluated
    /\ \E k \in DOMAIN mockPosts :
         mockPosts[k].id = arg /\ delivered[1].data = mockPosts[k]

C7_Witness == call = "fallback" /\ pc = "done" /\ exit.ok /\ arg = 2

C9_InputOrder ==
  call \in AllCalls =>
    /\ pc = "map" =>
         /\ collected[1] = TaskResult(1, "ok").value
         /\ collected[2] = TaskResult(2, "ok").value
    /\ (pc = "done" /\ delivered[1].success) =>
         /\ delivered[1].data.post = TaskResult(1, "ok").value
         /\ delivered[1].data.summary.postTitle = TaskResult(1, "ok").value.title
         /\ delivered[1].data.summary.totalTodos = TaskResult(2, "ok").value.length

C9_Witness ==
  /\ call \in AllCalls /\ pc = "done"
  /\ delivered[1].success
  /\ order = << 2, 1 >>

\* Effect.all has returned a task's failure (the deadline did not fire).
FailFastReturn ==
  call \in AllCalls /\ pc = "done" /\ exit # NoExit /\ timer # "fired"

\* C10 (as stated): after the first failure the task that is still running is
\* allowed to run to completion rather than being cancelled.
C10_SiblingCompletes ==
  FailFastReturn => \A i \in TaskIds : tasks[i] # "interrupted"

\* C10 (amended): after the first failure no further operation is dispatched
\* and a task that is still running is interrupted, not completed; Effect.all
\* returns once no task is running, the failure returned is the first (only)
\* error, and successes completed before it are discarded.
C10_FailFast ==
  /\ [][exit # NoExit =>
          \A i \in TaskIds :
            /\ tasks[i] = "pending" => tasks'[i] = "pending"
            /\ tasks[i] = "running" => tasks'[i] \in {"running", "interrupted"}]_vars
  /\ [](FailFastReturn =>
          /\ Running = {}
          /\ Cardinality({i \in TaskIds : tasks[i] = "err"}) = 1
          /\ \A i \in TaskIds :
               tasks[i] = "err" =>
                 /\ results[i] = exit
                 /\ order[Len(order)] = i
                 /\ delivered[1].error.type = results[i].error._tag
                 /\ delivered[1].error.message = results[i].error.message
          /\ Len(delivered) = 1
          /\ ~delivered[1].success)

C10_Witness ==
  /\ FailFastReturn
  /\ \E i, k \in TaskIds : tasks[i] = "err" /\ tasks[k] = "interrupted"

\* C11: every running task holds exactly one ticket, and once the parallel
\* run has returned (all succeeded, one failed, or the 5 s deadline fired) no
\* ticket is in use and no task is running.
C11_NoTicketLeak ==
  /\ inUse = Cardinality(Running)
  /\ (call \in AllCalls /\ pc \in {"map", "done"}) =>
       (inUse = 0 /\ Running = {})

C11_Witness ==
  /\ call = "timeout" /\ pc = "done" /\ timer = "fired"
  /\ \E i \in TaskIds : tasks[i] = "interrupted"
  /\ inUse = 0

\* C12: the attempts of one retry loop are strictly sequential: at most one
\* attempt is in flight, and attempt N+1 starts only from the backoff wait,
\* after all N earlier attempts have failed and their N backoffs were waited.
C12_SequentialAttempts ==
  /\ [](call \in RetryCalls =>
          /\ attempts - failures \in {0, 1}
          /\ pc \in {"running", "executing"} => attempts = failures + 1
          /\ pc = "waiting" => (attempts = failures /\ Len(waits) = failures))
  /\ [][(call \in RetryCalls /\ attempts > 0 /\ attempts' = attempts + 1) =>
          (pc = "waiting" /\ failures = attempts /\ Len(waits) = attempts)]_vars

C12_Witness == call = "request" /\ pc = "executing" /\ attempts = Recurs

\* C13: in fetchPostsWithRetry, when getPosts fails twice and then succeeds,
\* the caller gets {success: true} with the posts, getPosts was invoked
\* exactly 3 times, the waits were 100 ms then 200 ms (300 ms in total), and
\* no attempt follows the success.
C13_TwoFailuresThenSuccess ==
  /\ []((call = "retry" /\ pc = "done" /\ exit.ok /\ failures = 2) =>
          /\ attempts = 3
          /\ waits = << 100, 200 >>
          /\ Sum(waits) = 300
          /\ delivered = << [success |-> TRUE, data |-> JsArray(mockPosts)] >>)
  /\ [][(call = "retry" /\ pc = "done") => attempts' = attempts]_vars

C13_Witness == call = "retry" /\ pc = "done" /\ exit.ok /\ failures = 2

\* C14: in makeRequest the retry wraps the timeout: every attempt in flight
\* runs under its own armed deadline of the full 10 s, the k-th outcome of the
\* guard belongs to the k-th attempt, and an attempt that runs into its
\* deadline counts as a failed attempt and is retried while the schedule
\* grants a recurrence.
C14_FreshWindowPerAttempt ==
  /\ [](call = "request" =>
          /\ op = "inflight" => (timer = "armed" /\ window = RequestTimeoutMs)
          /\ \A k \in DOMAIN guardLog : guardLog[k].inv = k)
  /\ [][(call = "request" /\ timer = "armed" /\ timer' = "fired") =>
          /\ failures' = failures + 1
          /\ attempts <= Recurs => pc' = "waiting"
          /\ attempts > Recurs => pc' = "done"]_vars

C14_Witness ==
  /\ call = "request" /\ pc = "executing"
  /\ attempts = 2
  /\ guardLog[1].out = "timeout"
  /\ Sum(waits) > 0
  /\ window = RequestTimeoutMs

\* The operation a utility wraps has succeeded.
UnderlyingSucceeded ==
  IF call \in AllCalls
  THEN timer # "fired" /\ \A i \in TaskIds : tasks[i] = "ok"
  ELSE exit.ok

\* C15: retry, timeout, resource scope and catchTags never turn a failure
\* into a success: the caller of fetchPostsWithRetry, fetchUserDataWithTimeout,
\* fetchUserDataParallel, processPostsWithResourceManagement and
\* fetchPostsWithErrorHandling gets {success: true} only when the wrapped
\* operation succeeded, and {success: false} with an error otherwise.
C15_NoSuppression ==
  (call \in {"retry", "request", "timeout", "parallel", "resource"} /\ pc = "done") =>
    /\ Len(delivered) = 1
    /\ delivered[1].success => UnderlyingSucceeded
    /\ ~UnderlyingSucceeded =>
         (~delivered[1].success /\ delivered[1].error.type # "none")

C15_Witness ==
  /\ call = "resource" /\ pc = "done"
  /\ ~exit.ok /\ exit # Interrupted
  /\ ~delivered[1].success

\* The failures the spec calls retriable, as the code tags them: transport
\* (RequestError, HttpClientError of client.execute), timeout
\* (TimeoutException) and service (ApiError 'Failed to fetch posts').
RetriableFailure(e) ==
  \/ e._tag \in {"RequestError", "HttpClientError", "TimeoutException"}
  \/ e = ApiError("Failed to fetch posts")

\* C16: a decode failure of makeRequest ends the call without another
\* execution of the request, a failure of getPost in fetchPostWithFallback
\* (not found included) follows exactly one invocation, and every further
\* attempt of a retry loop follows a transport, timeout or service failure.
C16_NoRetryOfNonRetriable ==
  /\ []((call = "request" /\ exit = Err(ParseError)) => pc = "done")
  /\ [](call = "fallback" => attempts <= 1)
  /\ [][(call \in RetryCalls /\ attempts > 0 /\ attempts' = attempts + 1) =>
          (~exit.ok /\ RetriableFailure(exit.error))]_vars
  /\ [][(call = "request" /\ exit = Err(ParseError)) => attempts' = attempts]_vars

C16_Witness ==
  /\ call = "request" /\ pc = "done"
  /\ exit = Err(ParseError)
  /\ attempts = 1

\* What a re-classifying handler puts in front of the original message.
MessagePrefixes == {"", "HTTP error: ", "Network error: ", "Failed to decode response: "}

Carries(msg, original) == \E pre \in MessagePrefixes : msg = pre \o original

\* C17: when simulateNetworkCall fails inside getPosts, the error the caller
\* of fetchPostsWithRetry or processPostsWithResourceManagement receives
\* still carries the original message 'Network request failed'.
C17_OriginalMessageKept ==
  (call \in {"retry", "resource"} /\ pc = "done" /\ ~exit.ok /\ exit # Interrupted) =>
    Carries(delivered[1].error.message, NetworkFailure.message)

C19_CachedOnSecondCall ==
  /\ (call = "caching" /\ pc = "done" /\ previous # << >> /\ previous[1].success) =>
       (attempts = 1 /\ delivered = previous)
  /\ (call = "caching" /\ pc = "done" /\ ~exit.ok) => CacheGet(cache, arg) = {}

\* C20: when the body posted to /api/users violates UserSchema, createUser
\* fails with InvalidUserDataError, the user store is left as it was and the
\* response has status 400; status 201 answers only data that satisfies the
\* schema.
C20_InputValidated ==
  /\ (call = "createUser" /\ pc = "done" /\ input.parses /\ ~SatisfiesUserSchema(input)) =>
       /\ ~exit.ok /\ exit.error._tag = "InvalidUserDataError"
       /\ users = mockUsers
       /\ response.status = 400
  /\ (call = "createUser" /\ response.status = 201) => SatisfiesUserSchema(input)

\* The moves of one run of fetchPostsWithRetry: Idle -> Running,
\* Running -> Success | Failed (both "done") | Waiting, Waiting -> Running.
RetryTransitions ==
  { << "idle", "running" >>, << "running", "done" >>,
    << "running", "waiting" >>, << "waiting", "running" >> }

C22_IdsDistinctFinitePositive ==
  call = "store" =>
    /\ \A a, b \in DOMAIN users : users[a].id = users[b].id => a = b
    /\ \A k \in DOMAIN users : IsFinite(users[k].id) /\ users[k].id > 0
    /\ (lastOp.name = "create" /\ last.success) =>
         \A k \in DOMAIN before : before[k].id # last.data.id

\* C23: for an id the store does not hold, getUser, updateUser and deleteUser
\* fail with UserNotFoundError for that id, leave the store as it was, and
\* runUserOperation reports 'User with ID <id> not found'; for an id the store
\* holds, deleteUser removes exactly one user with that id, leaves the others
\* as they were, and getUser of that id fails afterwards.
C23_NotFoundAndDelete ==
  call = "store" =>
    /\ (lastOp.name \in {"get", "update", "delete"} /\ FindIndex(before, lastOp.id) = 0) =>
         /\ last = [success |-> FALSE,
                    error |-> [type |-> "UserNotFoundError",
                               message |-> "User with ID " \o ToString(lastOp.id)
                                             \o " not found"]]
         /\ users = before
    /\ (lastOp.name = "delete" /\ FindIndex(before, lastOp.id) # 0) =>
         /\ last.success
         /\ \E k \in DOMAIN before : before[k].id = lastOp.id /\ users = Splice(before, k)
         /\ ~GetUser(users, lastOp.id).exit.ok

\* C24: for every userId given to getTodos, 0 included, the list the simple
\* service returns holds only todos of that user, and the URL the HTTP service
\* requests carries that userId as its query.
C24_TodosRestricted ==
  /\ (call = "timeout" /\ tasks[2] = "ok") =>
       \A k \in DOMAIN results[2].value.items : results[2].value.items[k].userId = arg
  /\ (call = "parallel" /\ tasks[2] # "pending") =>
       TodosUrl(arg) = BASE_URL \o "/todos?userId=" \o ToString(arg)

\* C25: on the main page, loading.post is true whenever a loadPost call is in
\* flight, and once no loadPost call is in flight postResult is the result of
\* the most recently started one.
C25_LatestLoadPostWins ==
  call = "page" =>
    /\ (\E c \in inflight : c.fn = "post") => loading.post
    /\ ((\A c \in inflight : c.fn # "post") /\ shown.post # 0) => shown.post = newest.post

\* A step of the page that changes the flag or the result of fn starts or
\* settles a call of fn.
OwnWritesOnly ==
  \A fn \in Loads :
    (loading'[fn] # loading[fn] \/ pageResult'[fn] # pageResult[fn]) =>
      \/ \E c \in inflight \ inflight' : c.fn = fn
      \/ \E c \in inflight' \ inflight : c.fn = fn

AllLoaded ==
  /\ inflight = {}
  /\ \A fn \in Loads :
       /\ ~loading[fn]
       /\ pageResult[fn] # Null
       /\ "success" \in DOMAIN pageResult[fn]

\* C26: each step of the main page writes only the loading flag and the
\* result variable of the load it starts or settles, and after onMount every
\* load eventually has its flag back to false and a non-null {success: ...}
\* result, whether its effect succeeded, failed or rejected.
C26_LoadsIndependent ==
  /\ [][call = "page" => OwnWritesOnly]_vars
  /\ (call = "page" /\ started > 0) ~> AllLoaded

\* One load succeeded, one failed, one rejected, and all four are done.
C26_Witness ==
  /\ call = "page" /\ clicks = 0 /\ AllLoaded
  /\ pageResult.posts.success
  /\ ~pageResult.userData.success
  /\ pageResult.stats = Rejected

\* The phases of processPostsWithResourceManagement, in order.
ScopeTransitions ==
  { << "idle", "acquired" >>, << "acquired", "use" >>, << "use", "release" >>,
    << "release", "deliver" >>, << "deliver", "done" >> }

\* C27: processPostsWithResourceManagement runs acquire, body, release and
\* result delivery in that order; nothing is delivered before release has
\* run; after a successful body release finds context.processed equal to the
\* number of posts fetched; after a failed body it finds 0 and the caller
\* still receives the body's failure.
C27_PhasesOrdered ==
  /\ [][(call = "resource" /\ pc' # pc) => << pc, pc' >> \in ScopeTransitions]_vars
  /\ [][(call = "resource" /\ pc \in {"release", "deliver", "done"}) =>
          processed' = processed]_vars
  /\ []((call = "resource" /\ delivered # << >>) => (released = 1 /\ pc = "done"))
  /\ []((call = "resource" /\ released > 0) => (bodyStarted /\ acquired = 1))
  /\ []((call = "resource" /\ pc \in {"deliver", "done"} /\ exit.ok) =>
          (processed = Len(mockPosts) /\ exit.value.total = processed))
  /\ []((call = "resource" /\ pc \in {"deliver", "done"} /\ ~exit.ok /\ exit # Interrupted) =>
          /\ processed = 0
          /\ pc = "done" =>
               delivered = << [success |-> FALSE,
                               error |-> [type |-> exit.error._tag,
                                          message |-> exit.error.message]] >>)

C27_Witness ==
  /\ call = "resource" /\ pc = "done"
  /\ ~exit.ok /\ exit # Interrupted
  /\ processed = 0 /\ released = 1
  /\ ~delivered[1].success

\* The handler of the latest submit or update has finished.
FormHandled ==
  call = "forms" /\ pending = "none" /\ lastOp.name \in {"submit", "update"}

\* C28: when validateForm rejects the input of handleSubmit or handleUpdate,
\* createUser/updateUser is not invoked, the store is unchanged, formErrors
\* holds the validation messages and isSubmitting is false again; when
\* validation passes, the stored name is trimmed and the stored email is
\* trimmed and lower-cased.
C28_RejectedInputTouchesNothing ==
  FormHandled =>
    /\ DOMAIN ValidationErrors(lastOp.data) # {} =>
         /\ last = NoResult
         /\ users = before
         /\ formErrors = ValidationErrors(lastOp.data)
         /\ ~isSubmitting
    /\ (DOMAIN ValidationErrors(lastOp.data) = {} /\ last.success) =>
         /\ last.data.name = Trim(lastOp.data.name)
         /\ last.data.email = ToLowerCase(Trim(lastOp.data.email))
         /\ \E k \in DOMAIN users : users[k] = last.data

\* C29: on the forms page selectedUserId is null or the id of a user of the
\* store, and an update submitted from the edit form never fails with
\* UserNotFoundError.
C29_SelectionExists ==
  call = "forms" =>
    /\ selectedUserId = 0 \/ \E k \in DOMAIN users : users[k].id = selectedUserId
    /\ (lastOp.name = "update" /\ pending = "none" /\ last # NoResult) =>
         (last.success \/ last.error.type # "UserNotFoundError")

\* The caller was handed a failure that stems from simulateNetworkCall failing
\* (not from the deadline, an interruption or an absent post).
NetworkFailureSurfaced ==
  /\ call \in {"retry", "timeout", "resource"} /\ pc = "done"
  /\ delivered # << >> /\ ~delivered[1].success
  /\ delivered[1].error.type \notin {"Timeout", "UnknownError"}
  /\ delivered[1].error.message # NotFoundMessage(arg)

\* C30: whichever operation of the simple service simulateNetworkCall failed
\* in, the caller of fetchPostsWithRetry, fetchUserDataWithTimeout and
\* processPostsWithResourceManagement sees the same error type, the one
\* getPosts surfaces.
C30_SameKindForNetworkFailure ==
  NetworkFailureSurfaced =>
    delivered[1].error.type = SimpleGetPosts("fail").error._tag

====
